---- MODULE Spec2Model ----
(***************************************************************************)
(* A model of the genetic melody harmonizer: the fitness evaluator of      *)
(* utils/fitness.py and the generational search of utils/genetics.py.      *)
(*                                                                         *)
(* Numbers.  The program computes with Python floats.  The model computes  *)
(* with exact rationals: a metric is a pair num/den and a fitness is an    *)
(* integer numerator over the positive denominator 10 * Scale(...), where  *)
(* weights are written in tenths.  Rounding of the float sums is therefore *)
(* not modelled.                                                           *)
(*                                                                         *)
(* Randomness.  Every draw of the random module is a nondeterministic      *)
(* choice over the values the call can return.  mutation_rate is written   *)
(* in hundredths, 0..100, and so is the value of random.random().          *)
(*                                                                         *)
(* Storage.  Python lists are objects: heap maps an object id to the       *)
(* list's contents, and population, parents and new_population hold ids.   *)
(***************************************************************************)
EXTENDS Integers, Sequences, FiniteSets, TLC

VARIABLES cfg, pc, heap, population, parents, gen, nselect, choices_weights,
          best_chord_sequence, err, call

vars == <<cfg, pc, heap, population, parents, gen, nselect, choices_weights,
          best_chord_sequence, err, call>>

(***************************************************************************)
(* Bounds of the model.                                                    *)
(***************************************************************************)
\* largest number of bars of a melody given to generate
MaxBars == 3
\* largest population_size given to the harmonizer
MaxPop == 3
\* largest number of chords held by a population: population_size times bars
MaxCells == 6
\* largest generations argument of generate
MaxGen == 2
\* longest chord sequence given to a metric, to crossover or to mutate
MaxLen == 4
\* longest list of chord sequences given to the best-of selection
MaxList == 3
\* longest chord sequence in a list given to the best-of selection
BestLen == 2

(***************************************************************************)
(* Generic helpers for Python lists.                                       *)
(***************************************************************************)
Range(s) == {s[k] : k \in 1..Len(s)}

\* x in list
In(x, list) == \E k \in 1..Len(list) : list[k] = x

\* a fitness or metric evaluation that raised `e`
Raised(e) == [err |-> e, num |-> 0, den |-> 1]

\* num / den of Python: ZeroDivisionError when den = 0
Divide(n, d) ==
    IF d = 0 THEN Raised("ZeroDivisionError") ELSE [err |-> "none", num |-> n, den |-> d]

(***************************************************************************)
(* The data of main().                                                     *)
(***************************************************************************)
twinkle_twinkle_melody ==
    << <<"C5", 1>>, <<"C5", 1>>, <<"G5", 1>>, <<"G5", 1>>,
       <<"A5", 1>>, <<"A5", 1>>, <<"G5", 2>>,
       <<"F5", 1>>, <<"F5", 1>>, <<"E5", 1>>, <<"E5", 1>>,
       <<"D5", 1>>, <<"D5", 1>>, <<"C5", 2>>,
       <<"G5", 1>>, <<"G5", 1>>, <<"F5", 1>>, <<"F5", 1>>,
       <<"E5", 1>>, <<"E5", 1>>, <<"D5", 2>>,
       <<"G5", 1>>, <<"G5", 1>>, <<"F5", 1>>, <<"F5", 1>>,
       <<"E5", 1>>, <<"E5", 1>>, <<"D5", 2>>,
       <<"C5", 1>>, <<"C5", 1>>, <<"G5", 1>>, <<"G5", 1>>,
       <<"A5", 1>>, <<"A5", 1>>, <<"G5", 2>>,
       <<"F5", 1>>, <<"F5", 1>>, <<"E5", 1>>, <<"E5", 1>>,
       <<"D5", 1>>, <<"D5", 1>>, <<"C5", 2>> >>

\* pitch[0]: the first character of a note name
PitchHead(pitch) ==
    CASE pitch = "C5" -> "C"
      [] pitch = "D5" -> "D"
      [] pitch = "E5" -> "E"
      [] pitch = "F5" -> "F"
      [] pitch = "G5" -> "G"
      [] pitch = "A5" -> "A"
      [] pitch = "B5" -> "B"

chord_mappings ==
    ( "CMaj7"      :> <<"C", "E", "G", "B">> ) @@
    ( "D7"         :> <<"D", "Gb", "A", "C">> ) @@
    ( "E7"         :> <<"E", "Ab", "B", "D">> ) @@
    ( "Fsus2"      :> <<"F", "G", "A", "C">> ) @@
    ( "Fm6"        :> <<"F", "A", "C", "D">> ) @@
    ( "G7"         :> <<"G", "B", "D", "F">> ) @@
    ( "Am7add11"   :> <<"A", "C", "E", "G", "D">> ) @@
    ( "BminMaj7b5" :> <<"B", "D", "F", "Ab">> )

\* "E7" "Fsus2" in the source is one string literal, "E7Fsus2"
preferred_transitions ==
    ( "CMaj7"      :> <<"G7", "Am7add11", "Fsus2", "E7", "BminMaj7b5">> ) @@
    ( "D7"         :> <<"Fsus2">> ) @@
    ( "E7"         :> <<"Am7add11", "Fsus2", "CMaj7", "G7">> ) @@
    ( "Fsus2"      :> <<"Fm6">> ) @@
    ( "Fm6"        :> <<"CMaj7">> ) @@
    ( "G7"         :> <<"Am7add11", "CMaj7">> ) @@
    ( "Am7add11"   :> <<"D7", "E7Fsus2">> ) @@
    ( "BminMaj7b5" :> <<"CMaj7">> )

\* the weight table of main(), in dict order, weights in tenths
weights ==
    << <<"chord_melody_congruence", 5>>,
       <<"chord_variety", 6>>,
       <<"harmonic_flow", 3>>,
       <<"functional_harmony", 6>>,
       <<"tension", 8>>,
       <<"parallel_fifths", 4>> >>

(***************************************************************************)
(* MelodyData (utils/data.py).                                             *)
(***************************************************************************)
RECURSIVE SumDurations(_)
SumDurations(notes) ==
    IF notes = <<>> THEN 0 ELSE Head(notes)[2] + SumDurations(Tail(notes))

\* MelodyData.__post_init__
MelodyData(notes) ==
    [notes |-> notes,
     duration |-> SumDurations(notes),
     number_of_bars |-> SumDurations(notes) \div 4]

(***************************************************************************)
(* FitnessEvaluator (utils/fitness.py).  An evaluator `ev` is the record   *)
(* of the four constructor arguments.                                      *)
(***************************************************************************)
\* FitnessEvaluator.__init__: stores its arguments, checks nothing
FitnessEvaluator(melody_data, mappings, wts, transitions) ==
    [melody_data |-> melody_data,
     chord_mappings |-> mappings,
     weights |-> wts,
     preferred_transitions |-> transitions]

\* the inner while loop of _chord_melody_congruence for one chord:
\* <<melody_index, score>> after the bar
RECURSIVE CongruenceBar(_, _, _, _, _)
CongruenceBar(ev, chord, melody_index, bar_duration, score) ==
    IF bar_duration < 4 /\ melody_index < Len(ev.melody_data.notes)
    THEN LET note == ev.melody_data.notes[melody_index + 1]
             hit == In(PitchHead(note[1]), ev.chord_mappings[chord])
         IN  CongruenceBar(ev, chord, melody_index + 1, bar_duration + note[2],
                           IF hit THEN score + note[2] ELSE score)
    ELSE <<melody_index, score>>

\* the for loop of _chord_melody_congruence from chord k on
RECURSIVE CongruenceFrom(_, _, _, _, _)
CongruenceFrom(ev, chord_sequence, k, melody_index, score) ==
    IF k > Len(chord_sequence) THEN score
    ELSE LET r == CongruenceBar(ev, chord_sequence[k], melody_index, 0, score)
         IN  CongruenceFrom(ev, chord_sequence, k + 1, r[1], r[2])

ChordMelodyCongruence(ev, chord_sequence) ==
    Divide(CongruenceFrom(ev, chord_sequence, 1, 0, 0), ev.melody_data.duration)

ChordVariety(ev, chord_sequence) ==
    LET unique_chords == Cardinality(Range(chord_sequence))
        total_chords == Cardinality(DOMAIN ev.chord_mappings)
    IN  Divide(unique_chords, total_chords)

\* the pairs (chord_sequence[i], chord_sequence[i + 1]) of a loop over
\* range(len(chord_sequence) - 1), as 1-based positions of the first chord
Pairs(chord_sequence) == 1..(Len(chord_sequence) - 1)

HarmonicFlow(ev, chord_sequence) ==
    LET missing == {k \in Pairs(chord_sequence) :
                       chord_sequence[k] \notin DOMAIN ev.preferred_transitions}
        score == Cardinality({k \in Pairs(chord_sequence) :
                    In(chord_sequence[k + 1], ev.preferred_transitions[chord_sequence[k]])})
    IN  IF missing # {} THEN Raised("KeyError")
        ELSE Divide(score, Len(chord_sequence) - 1)

\* tonic checks against the chord symbol "CMaj7"
TonicPointsCMaj7(chord_sequence) ==
    (IF In(chord_sequence[1], <<"CMaj7">>) THEN 1 ELSE 0)
    + (IF In(chord_sequence[Len(chord_sequence)], <<"CMaj7">>) THEN 1 ELSE 0)

\* the two "tonic at the beginning and end" checks, against ["C"]
TonicPoints(chord_sequence) ==
    (IF In(chord_sequence[1], <<"C">>) THEN 1 ELSE 0)
    + (IF In(chord_sequence[Len(chord_sequence)], <<"C">>) THEN 1 ELSE 0)

bigram_model ==
    ( "G7" :> <<"CMaj7">> ) @@ ( "D7" :> <<"G7">> ) @@ ( "CMaj7" :> <<"D7">> )

BigramMatches(chord_sequence) ==
    Cardinality({k \in Pairs(chord_sequence) :
        /\ chord_sequence[k] \in DOMAIN bigram_model
        /\ In(chord_sequence[k + 1], bigram_model[chord_sequence[k]])})

\* the score -= 10 of _functional_harmony, as the amount subtracted
TonicPenalty(chord_sequence) ==
    IF \/ ~In(chord_sequence[1], <<"CMaj7">>)
       \/ ~In(chord_sequence[Len(chord_sequence)], <<"CMaj7">>)
    THEN 10 ELSE 0

FunctionalHarmony(ev, chord_sequence) ==
    IF chord_sequence = <<>> THEN Raised("IndexError")
    ELSE Divide(TonicPoints(chord_sequence) + BigramMatches(chord_sequence)
                   - TonicPenalty(chord_sequence),
                Len(chord_sequence) + 2)

tension_chords == <<"E7", "G7", "BminMaj7b5", "Fsus2", "Fmin6">>

\* a tension normalised by the number of distinct chords
TensionPerDistinct(ev, chord_sequence) ==
    LET score == Cardinality({k \in 1..Len(chord_sequence) :
                                 In(chord_sequence[k], tension_chords)})
    IN  Divide(score, Cardinality(Range(chord_sequence)))

Tension(ev, chord_sequence) ==
    LET score == Cardinality({k \in 1..Len(chord_sequence) :
                                 In(chord_sequence[k], tension_chords)})
    IN  Divide(score, Len(chord_sequence))

\* current_chord in rule and next_chord in rule
BothIn(current_chord, next_chord, rule) ==
    In(current_chord, rule) /\ In(next_chord, rule)

\* what one iteration of the loop of _parallel_fifths adds to the counter;
\* the ["Fmin6", "CMaj7"] test is nested in the ["Fsus2", "CMaj7"] test
FifthsOfPair(c, n) ==
    (IF BothIn(c, n, <<"CMaj7", "G7">>) THEN 1 ELSE 0)
    + (IF BothIn(c, n, <<"Am7add11", "E7">>) THEN 1 ELSE 0)
    + (IF BothIn(c, n, <<"D7", "Am7add11">>) THEN 1 ELSE 0)
    + (IF BothIn(c, n, <<"E7", "BminMaj7b5">>) THEN 1 ELSE 0)
    + (IF BothIn(c, n, <<"Fsus2", "CMaj7">>)
       THEN 1 + (IF BothIn(c, n, <<"Fmin6", "CMaj7">>) THEN 1 ELSE 0)
       ELSE 0)
    + (IF BothIn(c, n, <<"G7", "D7">>) THEN 1 ELSE 0)

RECURSIVE FifthsFrom(_, _)
FifthsFrom(chord_sequence, k) ==
    IF k > Len(chord_sequence) - 1 THEN 0
    ELSE FifthsOfPair(chord_sequence[k], chord_sequence[k + 1])
         + FifthsFrom(chord_sequence, k + 1)

\* 1 - (parallel_fifths / len), as (len - parallel_fifths) / len
ParallelFifths(ev, chord_sequence) ==
    LET r == Divide(FifthsFrom(chord_sequence, 1), Len(chord_sequence))
    IN  IF r.err # "none" THEN r ELSE Divide(r.den - r.num, r.den)

\* the metric methods getattr(self, f"_{func}") can find
Metrics == {"chord_melody_congruence", "chord_variety", "harmonic_flow",
            "functional_harmony", "tension", "parallel_fifths"}

\* getattr(self, f"_{func}")(chord_sequence), for func in Metrics
Metric(func, ev, chord_sequence) ==
    CASE func = "chord_melody_congruence" -> ChordMelodyCongruence(ev, chord_sequence)
      [] func = "chord_variety" -> ChordVariety(ev, chord_sequence)
      [] func = "harmonic_flow" -> HarmonicFlow(ev, chord_sequence)
      [] func = "functional_harmony" -> FunctionalHarmony(ev, chord_sequence)
      [] func = "tension" -> Tension(ev, chord_sequence)
      [] func = "parallel_fifths" -> ParallelFifths(ev, chord_sequence)

\* a common multiple of the denominators of the six metrics of a sequence
Scale(ev, chord_sequence) ==
    LET n == Len(chord_sequence)
    IN  ev.melody_data.duration * Cardinality(DOMAIN ev.chord_mappings)
          * (IF n > 1 THEN n - 1 ELSE 1) * (n + 2) * n

\* the sum of evaluate from the k-th entry of the weight table on; the
\* fitness is val / (10 * Scale)
RECURSIVE EvaluateFrom(_, _, _, _)
EvaluateFrom(ev, chord_sequence, k, acc) ==
    IF k > Len(ev.weights) THEN [err |-> "none", val |-> acc]
    ELSE LET func == ev.weights[k][1]
             w == ev.weights[k][2]
         IN  IF func \notin Metrics THEN [err |-> "AttributeError", val |-> 0]
             ELSE LET m == Metric(func, ev, chord_sequence)
                  IN  IF m.err # "none" THEN [err |-> m.err, val |-> 0]
                      ELSE EvaluateFrom(ev, chord_sequence, k + 1,
                             acc + w * m.num * (Scale(ev, chord_sequence) \div m.den))

Evaluate(ev, chord_sequence) == EvaluateFrom(ev, chord_sequence, 1, 0)

\* a maximum that lets a later element of equal key replace the best
RECURSIVE MaxFromLast(_, _, _)
MaxFromLast(scores, k, b) ==
    IF k > Len(scores) THEN b
    ELSE MaxFromLast(scores, k + 1, IF scores[k] >= scores[b] THEN k ELSE b)

\* the index max(..., key=...) returns for the list of keys `scores`,
\* scanning from position k with the best so far at position b: a later
\* element replaces the best only when its key is strictly greater
RECURSIVE MaxFrom(_, _, _)
MaxFrom(scores, k, b) ==
    IF k > Len(scores) THEN b
    ELSE MaxFrom(scores, k + 1, IF scores[k] > scores[b] THEN k ELSE b)

\* get_chord_sequence_with_highest_fitness on the list of sequences:
\* the position of the returned element, or the exception raised
SelectBest(ev, chord_sequences) ==
    LET scores == [k \in 1..Len(chord_sequences) |-> Evaluate(ev, chord_sequences[k])]
        bad == {k \in 1..Len(chord_sequences) : scores[k].err # "none"}
        first_bad == CHOOSE k \in bad : \A j \in bad : k <= j
    IN  IF chord_sequences = <<>> THEN [err |-> "ValueError", index |-> 0]
        ELSE IF bad # {} THEN [err |-> scores[first_bad].err, index |-> 0]
        ELSE [err |-> "none",
              index |-> MaxFrom([k \in 1..Len(scores) |-> scores[k].val], 2, 1)]

(***************************************************************************)
(* The random module, as far as the harmonizer uses it.                    *)
(***************************************************************************)
\* bisect.bisect_right(a, x, lo, hi), positions counted from 0
RECURSIVE Bisect(_, _, _, _)
Bisect(a, x, lo, hi) ==
    IF lo < hi
    THEN LET mid == (lo + hi) \div 2
         IN  IF x < a[mid + 1] THEN Bisect(a, x, lo, mid) ELSE Bisect(a, x, mid + 1, hi)
    ELSE lo

\* list(itertools.accumulate(w))
RECURSIVE Accumulate(_)
Accumulate(w) ==
    IF Len(w) <= 1 THEN w
    ELSE LET front == Accumulate(SubSeq(w, 1, Len(w) - 1))
         IN  Append(front, front[Len(front)] + w[Len(w)])

\* The positions (from 1) one draw of random.choices(population, weights=w)
\* can return when the total is positive: bisect(cum_weights, random() *
\* total, 0, n - 1).  The comparisons of bisect are constant for x between
\* two neighbouring cumulative weights, so x = 0 and the cumulative weights
\* inside (0, total) stand for all of [0, total).
ChoicesPositions(w) ==
    LET cum_weights == Accumulate(w)
        total == cum_weights[Len(w)]
        xs == {0} \cup {c \in Range(cum_weights) : 0 < c /\ c < total}
    IN  {Bisect(cum_weights, x, 0, Len(w) - 1) + 1 : x \in xs}

\* random.choices(population, weights=w, k=k) when the total is positive:
\* the lists it can return.  When the total is not positive the call raises
\* ValueError (CPython 3.9 and later), which is the caller's branch.
Choices(pop, w, k) ==
    [1..k -> {pop[p] : p \in ChoicesPositions(w)}]

(***************************************************************************)
(* GeneticMelodyHarmonizer (utils/genetics.py).                            *)
(***************************************************************************)
\* a crossover that loses the chord at the cut: parent2[cut_index + 1:]
CrossoverShort(parent1, parent2, cut_index) ==
    SubSeq(parent1, 1, cut_index) \o SubSeq(parent2, cut_index + 2, Len(parent2))

\* a crossover that takes the head of parent2 and the tail of parent1
CrossoverSwapped(parent1, parent2, cut_index) ==
    SubSeq(parent2, 1, cut_index) \o SubSeq(parent1, cut_index + 1, Len(parent1))

\* parent1[:cut_index] + parent2[cut_index:]
Crossover(parent1, parent2, cut_index) ==
    SubSeq(parent1, 1, cut_index) \o SubSeq(parent2, cut_index + 1, Len(parent2))

\* the values random.randint(1, len(parent1) - 1) can return
CutIndexes(parent1) == 1..(Len(parent1) - 1)

\* The values of random.random(), in hundredths.  _mutate only compares
\* the value with mutation_rate, and the comparison is monotone in the
\* value: the least and the greatest value give every outcome.
RandomUnit == {0, 99}

\* the draws of one call of _mutate on a list of length n: random.random()
\* and, when the branch is taken, randint(0, n - 1) and random.choice(chords)
MutationDraws(n, chords, mutation_rate) ==
    {[r |-> r, mutation_index |-> 0, chord |-> "none"] :
        r \in {u \in RandomUnit : ~(u < mutation_rate)}}
    \cup [r : {u \in RandomUnit : u < mutation_rate},
          mutation_index : 0..(n - 1), chord : chords]

\* a mutation that also overwrites the next position
MutateTwo(chord_sequence, mutation_rate, draw) ==
    IF draw.r < mutation_rate
    THEN [chord_sequence EXCEPT
            ![draw.mutation_index + 1] = draw.chord,
            ![((draw.mutation_index + 1) % Len(chord_sequence)) + 1] = draw.chord]
    ELSE chord_sequence

\* _mutate on the contents of a list, with the draws `draw`
Mutate(chord_sequence, mutation_rate, draw) ==
    IF draw.r < mutation_rate
    THEN [chord_sequence EXCEPT ![draw.mutation_index + 1] = draw.chord]
    ELSE chord_sequence

\* the lists _generate_random_chord_sequence can return
RandomChordSequences(chords, number_of_bars) ==
    [1..number_of_bars -> chords]

\* a crossover in place: parent1[cut_index:] = parent2[cut_index:];
\* return parent1.  The list returned is the list of the first parent.
CrossoverInPlace(h, id1, id2, cut_index, fresh) ==
    [heap |-> [h EXCEPT ![id1] = Crossover(h[id1], h[id2], cut_index)],
     id |-> id1]

\* _crossover on the lists id1 and id2 of the heap h: slicing and + build a
\* new list, stored at the unused id `fresh`; the lists id1 and id2 are only
\* read.  The result is the heap after the call and the id returned.
CrossoverList(h, id1, id2, cut_index, fresh) ==
    [heap |-> [h EXCEPT ![fresh] = Crossover(h[id1], h[id2], cut_index)],
     id |-> fresh]

\* _mutate on the list id of the heap h: the write goes into that list,
\* which is also the list returned
MutateList(h, id, mutation_rate, draw) ==
    [h EXCEPT ![id] = Mutate(@, mutation_rate, draw)]

\* _create_new_population from loop index i on (i counted from 0), with the
\* children so far in new_population: the outcomes the draws allow.  Both
\* crossovers of a pair are evaluated before either child is mutated.  The
\* lists _crossover builds are stored at the ids after those of the
\* population; `draws` records, child by child, the cut index and the draws
\* of _mutate.
RECURSIVE CreateNewPopulation(_, _, _, _, _, _)
CreateNewPopulation(self, h, prnts, i, new_population, draws) ==
    IF i >= self.population_size
    THEN {[err |-> "none", heap |-> h, new_population |-> new_population,
           draws |-> draws]}
    ELSE IF i + 2 > Len(prnts)
    THEN {[err |-> "IndexError", heap |-> h, new_population |-> new_population,
           draws |-> draws]}
    ELSE LET p1 == h[prnts[i + 1]]
             p2 == h[prnts[i + 2]]
             c1 == self.population_size + i + 1
             c2 == self.population_size + i + 2
         IN  IF CutIndexes(p1) = {} \/ CutIndexes(p2) = {}
             THEN {[err |-> "ValueError", heap |-> h,
                    new_population |-> new_population, draws |-> draws]}
             ELSE UNION {
                    LET child1 == CrossoverList(h, prnts[i + 1], prnts[i + 2],
                                                cut[1], c1)
                        child2 == CrossoverList(child1.heap, prnts[i + 2],
                                                prnts[i + 1], cut[2], c2)
                    IN  UNION {
                          CreateNewPopulation(self,
                              MutateList(
                                  MutateList(child2.heap, child1.id,
                                             self.mutation_rate, d[1]),
                                  child2.id, self.mutation_rate, d[2]),
                              prnts, i + 2,
                              new_population \o <<child1.id, child2.id>>,
                              draws \o <<[cut_index |-> cut[1], draw |-> d[1]],
                                         [cut_index |-> cut[2], draw |-> d[2]]>>) :
                          d \in MutationDraws(Len(child2.heap[child1.id]),
                                              self.chords, self.mutation_rate)
                                \X MutationDraws(Len(child2.heap[child2.id]),
                                                 self.chords,
                                                 self.mutation_rate) } :
                    cut \in CutIndexes(p1) \X CutIndexes(p2) }

(***************************************************************************)
(* The inputs of a run.                                                    *)
(***************************************************************************)
\* the shortest prefix of `notes` lasting at least `beats` beats
RECURSIVE TakeBeats(_, _)
TakeBeats(notes, beats) ==
    IF beats <= 0 \/ notes = <<>> THEN <<>>
    ELSE <<Head(notes)>> \o TakeBeats(Tail(notes), beats - Head(notes)[2])

\* the first `bars` bars of the melody of main()
Melody(bars) == TakeBeats(twinkle_twinkle_melody, 4 * bars)

\* f restricted to the keys in S
Restrict(f, S) == [x \in S |-> f[x]]

\* the weight table without the entry of `func`
Without(wts, func) == SelectSeq(wts, LAMBDA e : e[1] # func)

\* weight tables given to the evaluator: that of main(), that of main()
\* without tension, that of main() with a metric the evaluator does not
\* have, and chord_variety alone
WeightTables ==
    { weights,
      Without(weights, "tension"),
      Append(weights, <<"voice_leading", 5>>),
      << <<"chord_variety", 10>> >> }

\* the chord catalog of the runs of generate
RunChords == {"CMaj7", "G7"}

\* mutation_rate=0.05 of main(), in hundredths
mutation_rate == 5

\* the pairs <<number of bars, population_size>> of the runs
Sizes == {bn \in (1..MaxBars) \X (1..MaxPop) : bn[1] * bn[2] <= MaxCells}

\* GeneticMelodyHarmonizer.__init__ and the argument of generate
Configs ==
    { [melody_data |-> MelodyData(Melody(bn[1])),
       chords |-> RunChords,
       population_size |-> bn[2],
       mutation_rate |-> mutation_rate,
       generations |-> g,
       fitness_evaluator |->
           FitnessEvaluator(MelodyData(Melody(bn[1])), Restrict(chord_mappings, RunChords),
                            wts, preferred_transitions)] :
      bn \in Sizes, g \in 0..MaxGen, wts \in WeightTables }

NoCall == [op |-> "none"]

\* after GeneticMelodyHarmonizer.__init__, before generate
Init ==
    /\ cfg \in Configs
    /\ pc = "start"
    /\ heap = [k \in 1..(2 * cfg.population_size) |-> <<>>]
    /\ population = <<>>
    /\ parents = <<>>
    /\ gen = 0
    /\ nselect = 0
    /\ choices_weights = <<>>
    /\ best_chord_sequence = 0
    /\ err = "none"
    /\ call = NoCall

\* the contents of the lists of ids `ids`
Contents(h, ids) == [k \in 1..Len(ids) |-> h[ids[k]]]

\* an exception leaves generate
Raise(e) ==
    /\ pc' = "raised"
    /\ err' = e

\* a loop that runs once more than `generations`
LoopOnceMore(done) == IF done <= cfg.generations THEN "select" ELSE "best"

\* where the for loop of generate goes after `done` iterations
LoopOrBest(done) == IF done < cfg.generations THEN "select" ELSE "best"

\* self._population = self._initialise_population()
Initialise ==
    /\ pc = "start"
    /\ \E pop \in [1..cfg.population_size ->
                     RandomChordSequences(cfg.chords, cfg.melody_data.number_of_bars)] :
         heap' = [k \in DOMAIN heap |-> IF k <= cfg.population_size THEN pop[k] ELSE <<>>]
    /\ population' = [k \in 1..cfg.population_size |-> k]
    /\ pc' = LoopOrBest(0)
    /\ UNCHANGED <<cfg, parents, gen, nselect, choices_weights,
                   best_chord_sequence, err, call>>

\* parents = self._select_parents()
SelectParents ==
    /\ pc = "select"
    /\ nselect' = nselect + 1
    /\ LET fitness_values ==
               [k \in 1..Len(population) |->
                   Evaluate(cfg.fitness_evaluator, heap[population[k]])]
           bad == {k \in 1..Len(population) : fitness_values[k].err # "none"}
           first_bad == CHOOSE k \in bad : \A j \in bad : k <= j
           w == [k \in 1..Len(population) |-> fitness_values[k].val]
       IN  IF bad # {}
           THEN Raise(fitness_values[first_bad].err)
                /\ UNCHANGED <<parents, choices_weights>>
           ELSE /\ choices_weights' = w
                /\ IF Accumulate(w)[Len(w)] <= 0
                   THEN Raise("ValueError") /\ UNCHANGED parents
                   ELSE /\ parents' \in Choices(population, w, cfg.population_size)
                        /\ pc' = "breed"
                        /\ UNCHANGED err
    /\ UNCHANGED <<cfg, heap, population, gen, best_chord_sequence, call>>

\* new_population = self._create_new_population(parents);
\* self._population = new_population.  Once the population is replaced
\* nothing refers to the old lists: the new ones are renamed 1..N.
Breed ==
    /\ pc = "breed"
    /\ \E out \in CreateNewPopulation(cfg, heap, parents, 0, <<>>, <<>>) :
         IF out.err # "none"
         THEN Raise(out.err)
              /\ UNCHANGED <<heap, population, parents, gen, choices_weights>>
         ELSE /\ heap' = [k \in DOMAIN heap |->
                            IF k <= Len(out.new_population)
                            THEN out.heap[out.new_population[k]] ELSE <<>>]
              /\ population' = [k \in 1..Len(out.new_population) |-> k]
              /\ parents' = <<>>
              /\ choices_weights' = <<>>
              /\ gen' = gen + 1
              /\ pc' = LoopOrBest(gen + 1)
              /\ UNCHANGED err
    /\ UNCHANGED <<cfg, nselect, best_chord_sequence, call>>

\* best_chord_sequence = get_chord_sequence_with_highest_fitness(
\* self._population); return best_chord_sequence
Best ==
    /\ pc = "best"
    /\ LET r == SelectBest(cfg.fitness_evaluator, Contents(heap, population))
       IN  IF r.err # "none"
           THEN Raise(r.err) /\ UNCHANGED best_chord_sequence
           ELSE /\ best_chord_sequence' = population[r.index]
                /\ pc' = "done"
                /\ UNCHANGED err
    /\ UNCHANGED <<cfg, heap, population, parents, gen, nselect,
                   choices_weights, call>>

Next ==
    \/ Initialise
    \/ SelectParents
    \/ Breed
    \/ Best

Spec == Init /\ [][Next]_vars

(***************************************************************************)
(* Single calls of the methods, on inputs drawn from bounded sets: one     *)
(* call in a behaviour.  `call` records the arguments, the draws and the   *)
(* outcome of the call.                                                    *)
(***************************************************************************)
\* the non-empty chord sequences over `chords` of length at most n
ChordSequences(chords, n) == UNION {[1..len -> chords] : len \in 1..n}

\* mutation rates given to single calls of _mutate, in hundredths
MutationRates == {0, mutation_rate, 50, 100}

InitCalls ==
    /\ cfg = <<>>
    /\ pc = "calls"
    /\ heap = <<>>
    /\ population = <<>>
    /\ parents = <<>>
    /\ gen = 0
    /\ nselect = 0
    /\ choices_weights = <<>>
    /\ best_chord_sequence = 0
    /\ err = "none"
    /\ call = NoCall

\* _crossover(parent1, parent2) on two lists of one length
CallCrossover ==
    /\ pc = "calls"
    /\ \E len \in 1..MaxLen :
       \E parent1 \in [1..len -> RunChords], parent2 \in [1..len -> RunChords] :
         IF CutIndexes(parent1) = {}
         THEN call' = [op |-> "crossover", parent1 |-> parent1, parent2 |-> parent2,
                       err |-> "ValueError", cut_index |-> 0, result |-> <<>>]
         ELSE \E cut_index \in CutIndexes(parent1) :
                call' = [op |-> "crossover", parent1 |-> parent1, parent2 |-> parent2,
                         err |-> "none", cut_index |-> cut_index,
                         result |-> Crossover(parent1, parent2, cut_index)]
    /\ pc' = "returned"
    /\ UNCHANGED <<cfg, heap, population, parents, gen, nselect, choices_weights,
                   best_chord_sequence, err>>

\* _mutate(chord_sequence): `before` is the list's contents at the call,
\* `result` its contents at the return
CallMutate ==
    /\ pc = "calls"
    /\ \E chord_sequence \in ChordSequences(RunChords, MaxLen), rate \in MutationRates :
       \E draw \in MutationDraws(Len(chord_sequence), RunChords, rate) :
         call' = [op |-> "mutate", before |-> chord_sequence, mutation_rate |-> rate,
                  chords |-> RunChords, draw |-> draw,
                  result |-> Mutate(chord_sequence, rate, draw)]
    /\ pc' = "returned"
    /\ UNCHANGED <<cfg, heap, population, parents, gen, nselect, choices_weights,
                   best_chord_sequence, err>>

\* get_chord_sequence_with_highest_fitness(chord_sequences), for an
\* evaluator over the run catalog
CallSelectBest ==
    /\ pc = "calls"
    /\ \E bars \in 1..BestLen, n \in 1..MaxList,
          wts \in {weights, << <<"chord_variety", 10>> >>} :
       \E chord_sequences \in [1..n -> [1..bars -> RunChords]] :
         LET ev == FitnessEvaluator(MelodyData(Melody(bars)),
                                    Restrict(chord_mappings, RunChords),
                                    wts, preferred_transitions)
             r == SelectBest(ev, chord_sequences)
         IN  call' = [op |-> "select_best", ev |-> ev,
                      chord_sequences |-> chord_sequences,
                      err |-> r.err, index |-> r.index]
    /\ pc' = "returned"
    /\ UNCHANGED <<cfg, heap, population, parents, gen, nselect, choices_weights,
                   best_chord_sequence, err>>

\* the metrics on one chord sequence, for the evaluator of main() and for
\* the same evaluator over the run catalog
CallMetrics ==
    /\ pc = "calls"
    /\ \E catalog \in {DOMAIN chord_mappings, RunChords} :
       \E chord_sequence \in ChordSequences(catalog, MaxLen) :
         LET ev == FitnessEvaluator(MelodyData(Melody(Len(chord_sequence))),
                                    Restrict(chord_mappings, catalog),
                                    weights, preferred_transitions)
         IN  call' = [op |-> "metrics", ev |-> ev, chord_sequence |-> chord_sequence,
                      chord_variety |-> ChordVariety(ev, chord_sequence),
                      tension |-> Tension(ev, chord_sequence),
                      functional_harmony |-> FunctionalHarmony(ev, chord_sequence),
                      tonic_points |-> TonicPoints(chord_sequence),
                      bigram_matches |-> BigramMatches(chord_sequence),
                      tonic_penalty |-> TonicPenalty(chord_sequence)]
    /\ pc' = "returned"
    /\ UNCHANGED <<cfg, heap, population, parents, gen, nselect, choices_weights,
                   best_chord_sequence, err>>

\* transition tables given to single calls of _harmonic_flow: that of
\* main(), and that of main() with the keys of the run catalog only
TransitionTables ==
    {preferred_transitions, Restrict(preferred_transitions, RunChords)}

\* the chords of the sequences given to single calls of _harmonic_flow:
\* the run catalog and one chord more
FlowChords == RunChords \cup {"D7"}

\* _harmonic_flow(chord_sequence) of an evaluator with the table
\* `transitions`
CallHarmonicFlow ==
    /\ pc = "calls"
    /\ \E transitions \in TransitionTables :
       \E chord_sequence \in ChordSequences(FlowChords, MaxLen) :
         LET ev == FitnessEvaluator(MelodyData(Melody(Len(chord_sequence))),
                                    Restrict(chord_mappings, FlowChords),
                                    weights, transitions)
         IN  call' = [op |-> "harmonic_flow", ev |-> ev,
                      chord_sequence |-> chord_sequence,
                      result |-> HarmonicFlow(ev, chord_sequence)]
    /\ pc' = "returned"
    /\ UNCHANGED <<cfg, heap, population, parents, gen, nselect, choices_weights,
                   best_chord_sequence, err>>

\* _create_new_population(parents) of a harmonizer whose population is the
\* lists 1..population_size of the heap `before`; `parents` is any list of
\* population_size members, as random.choices with replacement can deliver
\* it.  `after` is the heap at the return (or at the exception).
CallCreateNewPopulation ==
    /\ pc = "calls"
    /\ \E size \in Sizes :
       \E contents \in [1..size[2] -> [1..size[1] -> RunChords]],
          prnts \in [1..size[2] -> 1..size[2]] :
         LET self == [population_size |-> size[2], chords |-> RunChords,
                      mutation_rate |-> mutation_rate]
             before == contents \o [id \in 1..size[2] |-> <<>>]
         IN  \E out \in CreateNewPopulation(self, before, prnts, 0, <<>>, <<>>) :
               call' = [op |-> "create_new_population", self |-> self,
                        before |-> before, parents |-> prnts, err |-> out.err,
                        after |-> out.heap,
                        new_population |-> out.new_population,
                        draws |-> out.draws]
    /\ pc' = "returned"
    /\ UNCHANGED <<cfg, heap, population, parents, gen, nselect, choices_weights,
                   best_chord_sequence, err>>

NextCalls ==
    \/ CallCrossover
    \/ CallMutate
    \/ CallSelectBest
    \/ CallMetrics
    \/ CallHarmonicFlow
    \/ CallCreateNewPopulation

SpecCalls == InitCalls /\ [][NextCalls]_vars

(***************************************************************************)
(* Properties of the runs of generate (Spec).                              *)
(***************************************************************************)
NumberOfBars == cfg.melody_data.number_of_bars

\* the fitness numerator of the list with id `id`
Fitness(id) == Evaluate(cfg.fitness_evaluator, heap[id]).val

\* C1: for a melody of at least two bars and an even population size, every
\* sequence of the population has exactly number_of_bars chords, in the
\* initial population and after every generation.
C1_PopulationLengths ==
    (NumberOfBars >= 2 /\ cfg.population_size % 2 = 0) =>
        \A k \in 1..Len(population) : Len(heap[population[k]]) = NumberOfBars

\* a run of two generations over a melody of three bars has returned
C1_Witness ==
    /\ NumberOfBars = 3 /\ cfg.population_size = 2
    /\ gen = 2
    /\ pc = "done"
    /\ Len(population) = 2

\* C2: generate initialises the population once, selects and breeds exactly
\* `generations` times, a selection before each breeding and the population
\* replaced by each breeding, and returns a member of the final population
\* whose fitness is the greatest of the final population; with zero
\* generations nothing is selected or bred.
C2_GenerateLoop ==
    /\ pc = "start" => (population = <<>> /\ gen = 0 /\ nselect = 0)
    /\ pc = "select" => (nselect = gen /\ gen < cfg.generations)
    /\ pc = "breed" => (nselect = gen + 1 /\ gen < cfg.generations)
    /\ pc \in {"best", "done"} => (nselect = gen /\ gen = cfg.generations)
    /\ pc \in {"select", "breed", "best", "done"} =>
           Len(population) = cfg.population_size
    /\ pc = "done" =>
           /\ In(best_chord_sequence, population)
           /\ \A k \in 1..Len(population) :
                  Fitness(population[k]) <= Fitness(best_chord_sequence)

\* a run of two generations has returned a sequence that beats another
\* member of the final population
C2_Witness ==
    /\ pc = "done"
    /\ cfg.generations = 2 /\ gen = 2 /\ nselect = 2
    /\ \E k \in 1..Len(population) :
           Fitness(population[k]) < Fitness(best_chord_sequence)

\* a run of zero generations has returned the best of the initial population
C2_WitnessZero ==
    /\ pc = "done"
    /\ cfg.generations = 0 /\ nselect = 0

\* the metric names of the weight table of the run
WeightKeys == {cfg.fitness_evaluator.weights[k][1] :
                  k \in 1..Len(cfg.fitness_evaluator.weights)}

\* the weight the table of the run gives to `func`, 0 when it has no entry
WeightOf(func) ==
    LET wts == cfg.fitness_evaluator.weights
        at == {k \in 1..Len(wts) : wts[k][1] = func}
    IN  IF at = {} THEN 0 ELSE wts[CHOOSE k \in at : TRUE][2]

\* C4: when the keys of the weight table are not exactly the implemented
\* metrics, a ConfigurationError is raised before any generation runs: no
\* parents are selected, nothing is bred, nothing is returned.
C4_ConfigurationError ==
    (WeightKeys # Metrics) =>
        /\ nselect = 0 /\ gen = 0
        /\ pc \notin {"breed", "done"}
        /\ pc = "raised" => err = "ConfigurationError"

\* C5: for a melody of one bar and a nonzero harmonic_flow weight, the first
\* evaluation of a candidate ends in a DegenerateInputError: no parents are
\* drawn, no crossover is attempted and nothing is returned.
C5_DegenerateInputError ==
    (NumberOfBars = 1 /\ WeightOf("harmonic_flow") # 0) =>
        /\ pc \notin {"breed", "done"}
        /\ gen = 0
        /\ pc = "raised" => err = "DegenerateInputError"

\* the fitness numerators of the population, when every evaluation returns
PopulationFitness == [k \in 1..Len(population) |-> Fitness(population[k])]

\* every evaluation of a member of the population returns
Scorable ==
    \A k \in 1..Len(population) :
        Evaluate(cfg.fitness_evaluator, heap[population[k]]).err = "none"

\* the fitness values are all non-positive, or sum to zero
Unsampleable(w) ==
    \/ \A k \in 1..Len(w) : w[k] <= 0
    \/ Accumulate(w)[Len(w)] = 0

\* C6: when the selection of parents meets fitness values that are all
\* non-positive or sum to zero, either a SamplingError is raised and
\* nothing is handed to the weighted sampling, or the weights handed to it
\* are all positive and population_size members of the population are drawn.
C6_SamplingPolicy ==
    (/\ pc \in {"breed", "raised"}
     /\ nselect = gen + 1
     /\ population # <<>>
     /\ Scorable
     /\ Unsampleable(PopulationFitness)) =>
        \/ pc = "raised" /\ err = "SamplingError" /\ choices_weights = <<>>
        \/ /\ pc = "breed"
           /\ Len(choices_weights) = Len(population)
           /\ \A k \in 1..Len(choices_weights) : choices_weights[k] > 0
           /\ Len(parents) = cfg.population_size
           /\ \A k \in 1..Len(parents) : In(parents[k], population)

(***************************************************************************)
(* Properties of single calls (SpecCalls).                                 *)
(***************************************************************************)
\* the fitness numerator of the k-th sequence of the list given to the call
CallScore(k) == Evaluate(call.ev, call.chord_sequences[k]).val

\* C3: the best-of selection on a non-empty list returns the element at the
\* smallest position whose fitness is the greatest of the list.
C3_SelectBestFirstMax ==
    (call.op = "select_best" /\ call.err = "none") =>
        /\ call.index \in 1..Len(call.chord_sequences)
        /\ \A k \in 1..Len(call.chord_sequences) : CallScore(k) <= CallScore(call.index)
        /\ \A k \in 1..(call.index - 1) : CallScore(k) < CallScore(call.index)

\* a list in which a later, different sequence ties with the returned one
C3_Witness ==
    /\ call.op = "select_best" /\ call.err = "none"
    /\ \E k \in (call.index + 1)..Len(call.chord_sequences) :
           /\ CallScore(k) = CallScore(call.index)
           /\ call.chord_sequences[k] # call.chord_sequences[call.index]

\* the positions at which two lists of one length differ
Changed(before, after) == {k \in 1..Len(before) : after[k] # before[k]}

\* C7: _mutate returns a list of the length it was given that differs from
\* the list's contents before the call at no more than one position, a
\* changed position holds one of the available chords, and the list is
\* unchanged when the mutation branch is not taken.
C7_MutateAtMostOne ==
    call.op = "mutate" =>
        /\ Len(call.result) = Len(call.before)
        /\ Cardinality(Changed(call.before, call.result)) <= 1
        /\ \A k \in Changed(call.before, call.result) : call.result[k] \in call.chords
        /\ ~(call.draw.r < call.mutation_rate) => call.result = call.before

\* a call that changed the last chord of a list of several chords
C7_Witness ==
    /\ call.op = "mutate"
    /\ Len(call.before) >= 3
    /\ Changed(call.before, call.result) = {Len(call.before)}

\* a call on a list of one chord, and one with the branch not taken
C7_WitnessUnchanged ==
    /\ call.op = "mutate"
    /\ call.mutation_rate = 50
    /\ ~(call.draw.r < call.mutation_rate)
    /\ call.result = call.before

\* C8: for parents of one length L >= 2, _crossover draws a cut c with
\* 1 <= c <= L - 1 and returns L chords: position i (from 0) holds
\* parent1[i] when i < c and parent2[i] otherwise, so the first chord is
\* parent1's and the last is parent2's.
C8_CrossoverSplice ==
    (call.op = "crossover" /\ Len(call.parent1) >= 2) =>
        LET L == Len(call.parent1)
        IN  /\ call.err = "none"
            /\ call.cut_index \in 1..(L - 1)
            /\ Len(call.result) = L
            /\ call.result[1] = call.parent1[1]
            /\ call.result[L] = call.parent2[L]
            /\ \A k \in 1..L :
                   call.result[k] = IF k - 1 < call.cut_index
                                    THEN call.parent1[k] ELSE call.parent2[k]

\* a crossover of two lists that differ at every position, cut in the middle
C8_Witness ==
    /\ call.op = "crossover"
    /\ Len(call.parent1) = 4
    /\ call.cut_index = 2
    /\ \A k \in 1..4 : call.parent1[k] # call.parent2[k]
    /\ call.result # call.parent1 /\ call.result # call.parent2

\* C9: for a non-empty sequence over the catalog, chord_variety is the
\* number of distinct chords over the catalog size, tension is the number
\* of positions holding a tension chord over the length, and both lie
\* between 0 and 1.
C9_VarietyTensionRange ==
    call.op = "metrics" =>
        LET s == call.chord_sequence
            v == call.chord_variety
            t == call.tension
        IN  /\ v.err = "none" /\ t.err = "none"
            /\ v.den = Cardinality(DOMAIN call.ev.chord_mappings)
            /\ v.num = Cardinality({c \in DOMAIN call.ev.chord_mappings : In(c, s)})
            /\ t.den = Len(s)
            /\ t.num = Cardinality({k \in 1..Len(s) : s[k] \in Range(tension_chords)})
            /\ v.den > 0 /\ 0 <= v.num /\ v.num <= v.den
            /\ t.den > 0 /\ 0 <= t.num /\ t.num <= t.den

\* a sequence longer than its catalog that uses every chord, all of them
\* tension chords but one
C9_Witness ==
    /\ call.op = "metrics"
    /\ Len(call.chord_sequence) > Cardinality(DOMAIN call.ev.chord_mappings)
    /\ call.chord_variety.num = call.chord_variety.den
    /\ call.tension.num = Len(call.chord_sequence) - 1

\* a sequence of tension chords only
C9_WitnessTension ==
    /\ call.op = "metrics"
    /\ Len(call.chord_sequence) >= 2
    /\ call.tension.num = call.tension.den
    /\ call.chord_variety.num >= 2

ScenarioD == <<"CMaj7", "D7", "G7", "CMaj7">>

\* C10 as stated: for CMaj7 D7 G7 CMaj7 the numerator of functional_harmony
\* is 2 tonic points plus 2 bigram matches, without the penalty, over 6.
C10_AsStated ==
    (call.op = "metrics" /\ call.chord_sequence = ScenarioD) =>
        /\ call.tonic_points = 2
        /\ call.bigram_matches = 2
        /\ call.tonic_penalty = 0
        /\ call.functional_harmony = [err |-> "none", num |-> 4, den |-> 6]

\* C10, amended: for CMaj7 D7 G7 CMaj7 the numerator of functional_harmony
\* is 0 tonic points (the tonic test compares with "C") plus 3 bigram
\* matches (each of the three adjacent pairs is in the table), without the
\* penalty, and the result is 3 over length + 2 = 6.
C10_ScenarioD ==
    (call.op = "metrics" /\ call.chord_sequence = ScenarioD) =>
        /\ call.tonic_points = 0
        /\ call.bigram_matches = 3
        /\ call.tonic_penalty = 0
        /\ call.functional_harmony = [err |-> "none", num |-> 3, den |-> 6]

\* the metrics of CMaj7 D7 G7 CMaj7 were computed by the evaluator of main()
C10_Witness ==
    /\ call.op = "metrics"
    /\ call.chord_sequence = ScenarioD
    /\ DOMAIN call.ev.chord_mappings = DOMAIN chord_mappings
    /\ call.functional_harmony.err = "none"

\* the adjacent pairs of the sequence of the call whose second chord is a
\* preferred successor of the first; a first chord without a key in the
\* table has no preferred successors
PreferredPairs ==
    {k \in Pairs(call.chord_sequence) :
        /\ call.chord_sequence[k] \in DOMAIN call.ev.preferred_transitions
        /\ In(call.chord_sequence[k + 1],
              call.ev.preferred_transitions[call.chord_sequence[k]])}

\* C11: for a sequence of at least two chords, harmonic_flow returns the
\* number of preferred pairs over length - 1; a pair whose first chord has
\* no key in the transition table counts 0 and the metric does not fail.
C11_AbsentKeyCountsZero ==
    (call.op = "harmonic_flow" /\ Len(call.chord_sequence) >= 2) =>
        call.result = [err |-> "none",
                       num |-> Cardinality(PreferredPairs),
                       den |-> Len(call.chord_sequence) - 1]


\* the parents of the k-th child of a call of _create_new_population, in the
\* order _crossover receives them: (parents[i], parents[i+1]) for the first
\* child of a pair, (parents[i+1], parents[i]) for the second
ParentsOfChild(k) ==
    IF k % 2 = 1 THEN <<call.parents[k], call.parents[k + 1]>>
                 ELSE <<call.parents[k], call.parents[k - 1]>>

\* the contents _crossover gave the k-th child, from the contents the
\* parents had when _create_new_population was called
CrossedChild(k) ==
    Crossover(call.before[ParentsOfChild(k)[1]],
              call.before[ParentsOfChild(k)[2]], call.draws[k].cut_index)

\* C12: in a breeding step every child is a list of its own: it is none of
\* the lists of the previous population (hence none of the parents) and
\* none of the other children; at the return every list of the previous
\* population has the contents it had at the call, and every child has the
\* contents of its own crossover with its own mutation only, also when the
\* same member is selected several times or is both parents of a pair.
C12_ChildrenStoredSeparately ==
    call.op = "create_new_population" =>
        /\ \A id \in 1..call.self.population_size :
             call.after[id] = call.before[id]
        /\ \A k \in DOMAIN call.new_population :
             /\ call.new_population[k] \notin 1..call.self.population_size
             /\ \A j \in DOMAIN call.new_population :
                  j # k => call.new_population[j] # call.new_population[k]
             /\ call.after[call.new_population[k]] =
                  Mutate(CrossedChild(k), call.self.mutation_rate,
                         call.draws[k].draw)

\* a breeding step whose first pair has one member as both parents, and in
\* which _mutate changed both children of the pair, differently
C12_Witness ==
    /\ call.op = "create_new_population"
    /\ call.err = "none"
    /\ call.parents[1] = call.parents[2]
    /\ call.after[call.new_population[1]] # CrossedChild(1)
    /\ call.after[call.new_population[2]] # CrossedChild(2)
    /\ call.after[call.new_population[1]] # call.after[call.new_population[2]]

====
